---- MODULE Spec2Model ----
(***************************************************************************)
(* A model of addons/pychat/chatapi.py: one ChatAPI instance, the          *)
(* application thread that calls its public methods one after another (as  *)
(* the __main__ block does), and the daemon heartbeat threads login_user   *)
(* starts.  Threads interleave at every access to the instance's shared    *)
(* fields (connected, username, session, exception_stack); the code takes  *)
(* no lock anywhere.                                                       *)
(***************************************************************************)
EXTENDS Integers, Sequences, FiniteSets, TLC

VARIABLES
    connected,        \* self.connected
    username,         \* self.username
    session,          \* self.session
    exception_stack,  \* self.exception_stack
    pc,               \* position of every thread
    frame,            \* local variables of the call a thread is executing
    ret,              \* what the last call of the application thread returned
    net,              \* what crossed the network in the last step
    flip              \* per heartbeat thread: has connected been flipped to False under it

vars == <<connected, username, session, exception_stack, pc, frame, ret, net, flip>>

session_vars == <<connected, username, session>>

----------------------------------------------------------------------------
(* Bounds of the model *)

MaxHb == 2
MaxErrors == 2
MaxFields == 3

(* Inputs *)

AppId == "id"
AppKey == "key"
Usernames == {"a", "b"}
Names == {"a"}
Passwords == {"pw"}
Descriptions == {""}
Messages == {"hi"}
GroupNames == {"g"}
Gids == {42}
Intervals == {60, -1}
Errors == {[err_no |-> 1, err_info |-> "e1"], [err_no |-> 2, err_info |-> "e2"]}

(* Values and sequences of values _get_sign is called with directly *)
FieldValues == {"", "a", "aa", "b", "ab"}
FieldSeqs == UNION {[1..n -> FieldValues] : n \in 1..MaxFields}

SaltMin == 1
SaltMax == 100000
SaltInts == {SaltMin, SaltMax}

Main == 0
HbIds == 1..MaxHb
Threads == {Main} \cup HbIds

----------------------------------------------------------------------------
(* Pure helpers *)

Digits == <<"0", "1", "2", "3", "4", "5", "6", "7", "8", "9">>

RECURSIVE Str(_)
Str(n) == IF n < 10 THEN Digits[n + 1] ELSE Str(n \div 10) \o Digits[(n % 10) + 1]

(* _gen_salt as it would be with random.randint(0, 100000) *)
GenSaltsFromZero == {Str(n) : n \in {SaltMin - 1, SaltMax}}

GenSalts == {Str(n) : n \in SaltInts}

RECURSIVE Concat(_)
Concat(ss) == IF ss = <<>> THEN "" ELSE Head(ss) \o Concat(Tail(ss))

Sha256(s) == <<"sha256", s>>

(* _get_sign as it would be if its loop left the last argument out *)
GetSignDropsLast(args) ==
    Sha256(AppId \o AppKey \o Concat(SubSeq(args, 1, Len(args) - 1)))

GetSign(args) == Sha256(AppId \o AppKey \o Concat(args))

----------------------------------------------------------------------------
(* The request body of every operation: the dict literal passed as `data`. *)
(* An authenticated operation evaluates self.session twice, once for the   *)
(* 'session' entry (s1) and once more as the first argument of _get_sign   *)
(* (s2); nothing keeps another thread from storing between the two reads.  *)

RegisterUserData(a, salt) ==
    [app_id |-> AppId, username |-> a.username, password |-> a.password,
     description |-> a.description, salt |-> salt,
     sign |-> GetSign(<<a.username, a.password, a.description, salt>>)]

LoginUserData(a, salt) ==
    [app_id |-> AppId, username |-> a.username, password |-> a.password,
     salt |-> salt, sign |-> GetSign(<<a.username, a.password, salt>>)]

HeartbeatData(s1, s2, salt) ==
    [app_id |-> AppId, session |-> s1, salt |-> salt, sign |-> GetSign(<<s2, salt>>)]

GetUserInfoData(a, s1, s2, salt) ==
    [app_id |-> AppId, session |-> s1, username |-> a.username, salt |-> salt,
     sign |-> GetSign(<<s2, a.username, salt>>)]

ChangePasswordData(a, s1, s2, salt) ==
    [app_id |-> AppId, session |-> s1, username |-> a.username,
     new_password |-> a.new_password, salt |-> salt,
     sign |-> GetSign(<<s2, a.username, a.new_password, salt>>)]

SendDirectMessageData(a, s1, s2, salt) ==
    [app_id |-> AppId, session |-> s1, recv_user |-> a.recv_user,
     message |-> a.message, salt |-> salt,
     sign |-> GetSign(<<s2, a.recv_user, a.message, salt>>)]

GetDirectMessageData(s1, s2, salt) ==
    [app_id |-> AppId, session |-> s1, salt |-> salt, sign |-> GetSign(<<s2, salt>>)]

SendGroupMessageData(a, s1, s2, salt) ==
    LET gid == Str(a.gid)
    IN  [app_id |-> AppId, session |-> s1, gid |-> gid, message |-> a.message,
         salt |-> salt, sign |-> GetSign(<<s2, gid, a.message, salt>>)]

GetGroupMessageData(a, s1, s2, salt) ==
    LET gid == Str(a.gid)
    IN  [app_id |-> AppId, session |-> s1, gid |-> gid, salt |-> salt,
         sign |-> GetSign(<<s2, gid, salt>>)]

GetGroupInfoData(a, s1, s2, salt) ==
    LET gid == Str(a.gid)
    IN  [app_id |-> AppId, session |-> s1, gid |-> gid, salt |-> salt,
         sign |-> GetSign(<<s2, gid, salt>>)]

RegisterGroupData(a, s1, s2, salt) ==
    [app_id |-> AppId, session |-> s1, group_name |-> a.group_name,
     description |-> a.description, salt |-> salt,
     sign |-> GetSign(<<s2, a.group_name, a.description, salt>>)]

Ops == {"register_user", "login_user", "heartbeat", "get_user_info", "change_password",
        "send_direct_message", "get_direct_message", "send_group_message",
        "get_group_message", "get_group_info", "register_group"}

Unauthenticated == {"register_user", "login_user"}

(* Operations that return the response mapping on status 0 *)
Returning == Ops \ {"register_user", "login_user", "heartbeat"}

(* The api_name each operation passes to _send_request *)
ApiName(op) == IF op = "register_group" THEN "get_group_info" ELSE op

(* data of the call in frame f, whose second read of self.session gives s2 *)
Data(f, s2, salt) ==
    CASE f.op = "register_user"       -> RegisterUserData(f.args, salt)
      [] f.op = "login_user"          -> LoginUserData(f.args, salt)
      [] f.op = "heartbeat"           -> HeartbeatData(f.s1, s2, salt)
      [] f.op = "get_user_info"       -> GetUserInfoData(f.args, f.s1, s2, salt)
      [] f.op = "change_password"     -> ChangePasswordData(f.args, f.s1, s2, salt)
      [] f.op = "send_direct_message" -> SendDirectMessageData(f.args, f.s1, s2, salt)
      [] f.op = "get_direct_message"  -> GetDirectMessageData(f.s1, s2, salt)
      [] f.op = "send_group_message"  -> SendGroupMessageData(f.args, f.s1, s2, salt)
      [] f.op = "get_group_message"   -> GetGroupMessageData(f.args, f.s1, s2, salt)
      [] f.op = "get_group_info"      -> GetGroupInfoData(f.args, f.s1, s2, salt)
      [] f.op = "register_group"      -> RegisterGroupData(f.args, f.s1, s2, salt)

----------------------------------------------------------------------------
(* Values *)

NoFrame == [op |-> "none"]
NoEvent == [kind |-> "none"]
NoArgs == [none |-> TRUE]

Pending == [kind |-> "pending"]
None == [kind |-> "None"]
Raised == [kind |-> "raise"]
Dict(result) == [kind |-> "dict", value |-> result]

(* The session token the server issues to user u *)
TokenOf(u) == "t" \o u

(* What the server may answer with status 0 to the call in frame f *)
OkResults(f) ==
    IF f.op = "login_user" THEN {[status |-> 0, session |-> TokenOf(f.args.username)]}
    ELSE IF f.op \in Returning THEN {[status |-> 0, body |-> f.op]}
    ELSE {[status |-> 0]}

(* What the server may answer with a status other than 0 *)
FailResults == {[status |-> e.err_no, err_no |-> e.err_no, err_info |-> e.err_info] : e \in Errors}

(* Threads that are executing start_heartbeat *)
Alive == {"check", "call", "built", "await", "sleep"}
Running == {h \in HbIds : pc[h] \in Alive}
FreeSlots == HbIds \ Running

----------------------------------------------------------------------------
Start(watch) ==
    /\ connected = FALSE
    /\ username = ""
    /\ session = ""
    /\ exception_stack = <<>>
    /\ pc = [t \in Threads |-> IF t = Main THEN "idle" ELSE "none"]
    /\ frame = [t \in Threads |-> NoFrame]
    /\ ret = Pending
    /\ net = NoEvent
    /\ flip = [h \in HbIds |-> watch]

Init == Start("off")

(* The same program, with flips of connected watched for every heartbeat thread *)
InitWatched == Start("no")

----------------------------------------------------------------------------
(* Entry of a public method on thread t: the salt is drawn and the dict    *)
(* literal starts being evaluated, which for an authenticated operation    *)
(* reads self.session for the 'session' entry.  The application thread     *)
(* calls from outside; a heartbeat thread calls heartbeat() from its loop. *)

Enter(t, op, args) ==
    /\ \/ t = Main /\ pc[t] = "idle"
       \/ t \in HbIds /\ pc[t] = "call" /\ op = "heartbeat"
    /\ frame' = [frame EXCEPT ![t] =
                   [op |-> op, args |-> args,
                    s1 |-> IF op \in Unauthenticated THEN "" ELSE session]]
    /\ pc' = [pc EXCEPT ![t] = "built"]
    /\ ret' = Pending
    /\ net' = NoEvent
    /\ UNCHANGED <<session_vars, exception_stack, flip>>

RegisterUser(t) ==
    \E u \in Names, p \in Passwords, d \in Descriptions :
        Enter(t, "register_user", [username |-> u, password |-> p, description |-> d])

(* A login that may start a heartbeat thread needs a free slot of the model *)
LoginUser(t) ==
    \E u \in Usernames, p \in Passwords, i \in Intervals :
        /\ i > 0 => FreeSlots # {}
        /\ Enter(t, "login_user", [username |-> u, password |-> p, heartbeat_interval |-> i])

Heartbeat(t) == Enter(t, "heartbeat", NoArgs)

GetUserInfo(t) ==
    \E u \in Names : Enter(t, "get_user_info", [username |-> u])

ChangePassword(t) ==
    \E u \in Names, p \in Passwords :
        Enter(t, "change_password", [username |-> u, new_password |-> p])

SendDirectMessage(t) ==
    \E u \in Names, m \in Messages :
        Enter(t, "send_direct_message", [recv_user |-> u, message |-> m])

GetDirectMessage(t) == Enter(t, "get_direct_message", NoArgs)

SendGroupMessage(t) ==
    \E g \in Gids, m \in Messages :
        Enter(t, "send_group_message", [gid |-> g, message |-> m])

GetGroupMessage(t) == \E g \in Gids : Enter(t, "get_group_message", [gid |-> g])

GetGroupInfo(t) == \E g \in Gids : Enter(t, "get_group_info", [gid |-> g])

RegisterGroup(t) ==
    \E g \in GroupNames, d \in Descriptions :
        Enter(t, "register_group", [group_name |-> g, description |-> d])

----------------------------------------------------------------------------
(* The rest of the dict literal and the call of _send_request: the second  *)
(* read of self.session goes into the signature, and the request leaves.   *)

SendRequest(t) ==
    /\ pc[t] = "built"
    /\ \E salt \in GenSalts :
         net' = [kind |-> "req", thread |-> t, op |-> frame[t].op,
                 api_name |-> ApiName(frame[t].op), data |-> Data(frame[t], session, salt)]
    /\ frame' = [frame EXCEPT ![t] =
                   [op |-> frame[t].op,
                    args |-> IF frame[t].op = "login_user" THEN frame[t].args ELSE NoArgs]]
    /\ pc' = [pc EXCEPT ![t] = "await"]
    /\ flip' = [h \in HbIds |-> IF h = t /\ flip[h] = "may" THEN "over" ELSE flip[h]]
    /\ ret' = Pending
    /\ UNCHANGED <<session_vars, exception_stack>>

(* Return as it would be if start_heartbeat ran heartbeat() once, under an *)
(* `if` in place of the `while`                                            *)
ReturnOnce(t, value) ==
    /\ pc' = [pc EXCEPT ![t] = IF t = Main THEN "idle" ELSE "none"]
    /\ ret' = IF t = Main THEN value ELSE Pending
    /\ frame' = [frame EXCEPT ![t] = NoFrame]

(* The end of a call on thread t.  The application thread gets the value;  *)
(* a heartbeat thread goes on to time.sleep, or ends with the exception.   *)
Return(t, value) ==
    /\ pc' = [pc EXCEPT ![t] = IF t = Main THEN "idle"
                                ELSE IF value = Raised THEN "none" ELSE "sleep"]
    /\ ret' = IF t = Main THEN value ELSE Pending
    /\ frame' = [frame EXCEPT ![t] = NoFrame]

(* The failure as it would be if the method caught it and recorded it *)
TransportErrorCaught(t) ==
    /\ pc[t] = "await"
    /\ Len(exception_stack) < MaxErrors
    /\ net' = [kind |-> "error", thread |-> t, op |-> frame[t].op]
    /\ exception_stack' = Append(exception_stack, [err_no |-> -1, err_info |-> "URLError"])
    /\ Return(t, None)
    /\ UNCHANGED <<session_vars, flip>>

(* urlopen, read or json.loads raises: nothing in the class catches it *)
TransportError(t) ==
    /\ pc[t] = "await"
    /\ net' = [kind |-> "error", thread |-> t, op |-> frame[t].op]
    /\ Return(t, Raised)
    /\ UNCHANGED <<session_vars, exception_stack, flip>>

(* _handle_exception as it would be if it lost the message *)
HandleExceptionNoInfo(data) ==
    Append(exception_stack, [err_no |-> data.err_no, err_info |-> ""])

(* _handle_exception as it would be if it pushed on the front *)
HandleExceptionFront(data) ==
    <<[err_no |-> data.err_no, err_info |-> data.err_info]>> \o exception_stack

(* _handle_exception as it would be if a second append took the slot of   *)
(* the record appended just before it                                      *)
HandleExceptionSameSlot(data) ==
    IF exception_stack = <<>>
    THEN <<[err_no |-> data.err_no, err_info |-> data.err_info]>>
    ELSE [exception_stack EXCEPT ![Len(exception_stack)] =
             [err_no |-> data.err_no, err_info |-> data.err_info]]

(* _handle_exception: the record appended for a response *)
HandleException(data) ==
    Append(exception_stack, [err_no |-> data.err_no, err_info |-> data.err_info])

(* A refused call as it would be if the else branch also dropped the connection *)
ResponseFailDisconnects(t) ==
    /\ pc[t] = "await"
    /\ Len(exception_stack) < MaxErrors
    /\ \E result \in FailResults :
         /\ net' = [kind |-> "resp", thread |-> t, op |-> frame[t].op, result |-> result]
         /\ exception_stack' = HandleException(result)
    /\ Return(t, None)
    /\ connected' = FALSE
    /\ UNCHANGED <<username, session, flip>>

(* A response whose status is not 0 *)
ResponseFail(t) ==
    /\ pc[t] = "await"
    /\ Len(exception_stack) < MaxErrors
    /\ \E result \in FailResults :
         /\ net' = [kind |-> "resp", thread |-> t, op |-> frame[t].op, result |-> result]
         /\ exception_stack' = HandleException(result)
    /\ Return(t, None)
    /\ UNCHANGED <<session_vars, flip>>

(* The success branch as it would be without its `return result` *)
ResponseOkNoReturn(t) ==
    /\ pc[t] = "await"
    /\ frame[t].op # "login_user"
    /\ \E result \in OkResults(frame[t]) :
         /\ net' = [kind |-> "resp", thread |-> t, op |-> frame[t].op, result |-> result]
         /\ Return(t, None)
    /\ UNCHANGED <<session_vars, exception_stack, flip>>

(* A response with status 0 to any operation but login_user *)
ResponseOk(t) ==
    /\ pc[t] = "await"
    /\ frame[t].op # "login_user"
    /\ \E result \in OkResults(frame[t]) :
         /\ net' = [kind |-> "resp", thread |-> t, op |-> frame[t].op, result |-> result]
         /\ Return(t, IF frame[t].op \in Returning THEN Dict(result) ELSE None)
    /\ UNCHANGED <<session_vars, exception_stack, flip>>

(* The success branch as it would be if it started the thread first *)
LoginConnectedStartsThread(t) ==
    /\ pc[t] = "await"
    /\ frame[t].op = "login_user"
    /\ \E result \in OkResults(frame[t]) :
         /\ net' = [kind |-> "resp", thread |-> t, op |-> "login_user", result |-> result]
         /\ frame' = [frame EXCEPT ![t] = [op |-> "login_user",
                                           args |-> [frame[t].args EXCEPT
                                                        !.heartbeat_interval = -1],
                                           result |-> result]]
    /\ connected' = TRUE
    /\ IF frame[t].args.heartbeat_interval > 0
         THEN \E h \in FreeSlots :
                /\ \A g \in FreeSlots : h <= g
                /\ pc' = [pc EXCEPT ![t] = "l134", ![h] = "check"]
         ELSE pc' = [pc EXCEPT ![t] = "l134"]
    /\ ret' = Pending
    /\ UNCHANGED <<username, session, exception_stack, flip>>

(* login_user, status 0: self.connected = True *)
LoginConnected(t) ==
    /\ pc[t] = "await"
    /\ frame[t].op = "login_user"
    /\ \E result \in OkResults(frame[t]) :
         /\ net' = [kind |-> "resp", thread |-> t, op |-> "login_user", result |-> result]
         /\ frame' = [frame EXCEPT ![t] = [op |-> "login_user", args |-> frame[t].args,
                                           result |-> result]]
    /\ connected' = TRUE
    /\ pc' = [pc EXCEPT ![t] = "l134"]
    /\ ret' = Pending
    /\ UNCHANGED <<username, session, exception_stack, flip>>

(* self.username = username *)
LoginUsername(t) ==
    /\ pc[t] = "l134"
    /\ username' = frame[t].args.username
    /\ pc' = [pc EXCEPT ![t] = "l135"]
    /\ net' = NoEvent
    /\ ret' = Pending
    /\ UNCHANGED <<connected, session, exception_stack, frame, flip>>

(* The store of line 135 as it would be if it stored the wrong local *)
LoginSessionWrongValue(t) ==
    /\ pc[t] = "l135"
    /\ session' = frame[t].args.username
    /\ pc' = [pc EXCEPT ![t] = "l136"]
    /\ net' = NoEvent
    /\ ret' = Pending
    /\ UNCHANGED <<connected, username, exception_stack, frame, flip>>

(* self.session = result['session'] *)
LoginSession(t) ==
    /\ pc[t] = "l135"
    /\ session' = frame[t].result.session
    /\ pc' = [pc EXCEPT ![t] = "l136"]
    /\ net' = NoEvent
    /\ ret' = Pending
    /\ UNCHANGED <<connected, username, exception_stack, frame, flip>>

(* The end of login_user as it would be without `if heartbeat_interval > 0` *)
LoginStartHeartbeatAlways(t) ==
    /\ pc[t] = "l136"
    /\ \E h \in FreeSlots :
         /\ \A g \in FreeSlots : h <= g
         /\ pc' = [pc EXCEPT ![t] = "idle", ![h] = "check"]
         /\ flip' = [flip EXCEPT ![h] = IF flip[h] = "off" THEN "off" ELSE "no"]
    /\ ret' = None
    /\ frame' = [frame EXCEPT ![t] = NoFrame]
    /\ net' = NoEvent
    /\ UNCHANGED <<session_vars, exception_stack>>

(* if heartbeat_interval > 0: threading.Thread(...).start(); then return *)
LoginStartHeartbeat(t) ==
    /\ pc[t] = "l136"
    /\ IF frame[t].args.heartbeat_interval > 0
         THEN \E h \in FreeSlots :
                /\ \A g \in FreeSlots : h <= g
                /\ pc' = [pc EXCEPT ![t] = "idle", ![h] = "check"]
                /\ flip' = [flip EXCEPT ![h] = IF flip[h] = "off" THEN "off" ELSE "no"]
         ELSE /\ pc' = [pc EXCEPT ![t] = "idle"]
              /\ flip' = flip
    /\ ret' = None
    /\ frame' = [frame EXCEPT ![t] = NoFrame]
    /\ net' = NoEvent
    /\ UNCHANGED <<session_vars, exception_stack>>

----------------------------------------------------------------------------
(* start_heartbeat on thread h *)

(* start_heartbeat as it would be with `if self.connected:` for the while *)
HeartbeatCheckNoLoop(h) ==
    /\ pc[h] \in {"check", "sleep"}
    /\ pc' = [pc EXCEPT ![h] = IF connected /\ pc[h] = "check" THEN "call" ELSE "none"]
    /\ net' = NoEvent
    /\ ret' = Pending
    /\ UNCHANGED <<session_vars, exception_stack, frame, flip>>

(* while self.connected: evaluated when the thread starts and every time   *)
(* time.sleep(heartbeat_interval) is over; a False ends the thread.        *)
HeartbeatCheck(h) ==
    /\ pc[h] \in {"check", "sleep"}
    /\ pc' = [pc EXCEPT ![h] = IF connected THEN "call" ELSE "none"]
    /\ net' = NoEvent
    /\ ret' = Pending
    /\ UNCHANGED <<session_vars, exception_stack, frame, flip>>

----------------------------------------------------------------------------
(* The application, between two calls, sets connected to False: the only   *)
(* way the heartbeat loop is meant to stop.  flip remembers, for every     *)
(* running loop, whether it was about to send (it may send that once) or   *)
(* had sent already.                                                       *)
Disconnect ==
    /\ pc[Main] = "idle"
    /\ connected
    /\ connected' = FALSE
    /\ flip' = [h \in HbIds |->
                  IF pc[h] \notin Alive \/ flip[h] \in {"off", "over"} THEN flip[h]
                  ELSE IF pc[h] \in {"call", "built"} THEN "may" ELSE "over"]
    /\ net' = NoEvent
    /\ ret' = Pending
    /\ UNCHANGED <<username, session, exception_stack, pc, frame>>

----------------------------------------------------------------------------
Next ==
    \/ RegisterUser(Main)
    \/ LoginUser(Main)
    \/ \E t \in Threads : Heartbeat(t)
    \/ GetUserInfo(Main)
    \/ ChangePassword(Main)
    \/ SendDirectMessage(Main)
    \/ GetDirectMessage(Main)
    \/ SendGroupMessage(Main)
    \/ GetGroupMessage(Main)
    \/ GetGroupInfo(Main)
    \/ RegisterGroup(Main)
    \/ \E t \in Threads : SendRequest(t)
    \/ \E t \in Threads : TransportError(t)
    \/ \E t \in Threads : ResponseFail(t)
    \/ \E t \in Threads : ResponseOk(t)
    \/ \E t \in Threads : LoginConnected(t)
    \/ \E t \in Threads : LoginUsername(t)
    \/ \E t \in Threads : LoginSession(t)
    \/ \E t \in Threads : LoginStartHeartbeat(t)
    \/ \E h \in HbIds : HeartbeatCheck(h)
    \/ Disconnect

Spec == Init /\ [][Next]_vars

SpecWatched == InitWatched /\ [][Next]_vars

(* The steps a heartbeat thread takes by itself: the scheduler runs every  *)
(* thread that can run, and time.sleep comes to an end.  The answer of the *)
(* server is no step of its own.                                           *)
HeartbeatStep(h) == HeartbeatCheck(h) \/ Heartbeat(h) \/ SendRequest(h)

FairSpec == Spec /\ \A h \in HbIds : WF_vars(HeartbeatStep(h))

(* The end of the blocking urlopen of a heartbeat: the server answers, or  *)
(* the transport raises.                                                   *)
HeartbeatAnswer(h) == ResponseOk(h) \/ ResponseFail(h) \/ TransportError(h)

(* Fair scheduling, and no request of a heartbeat thread hangs for ever *)
LiveSpec == FairSpec /\ \A h \in HbIds : WF_vars(HeartbeatAnswer(h))

----------------------------------------------------------------------------
(* _get_sign called by itself on a client just constructed: the call reads *)
(* nothing but the module's app_id and app_key and its arguments, and ret  *)
(* keeps the arguments next to the digest returned.                        *)
GetSignCall(args) ==
    /\ pc[Main] = "idle"
    /\ ret' = [kind |-> "sign", args |-> args, value |-> GetSign(args)]
    /\ UNCHANGED <<session_vars, exception_stack, pc, frame, net, flip>>

SignNext == \E args \in FieldSeqs : GetSignCall(args)

SignSpec == Init /\ [][SignNext]_vars

----------------------------------------------------------------------------
(* Steps, as seen from outside *)

(* thread t gets the answer to its request in this step *)
Answered(t) == pc[t] = "await" /\ pc'[t] # "await"

(* thread t gets a response with a status other than 0 in this step *)
Refused(t) ==
    /\ Answered(t)
    /\ net'.kind = "resp"
    /\ net'.thread = t
    /\ net'.result.status # 0

(* thread t puts a request on the network in this step *)
Sends(t) == pc[t] = "built" /\ pc'[t] = "await"

(* a call of thread t ends in this step *)
Ends(t) == pc[t] \in {"await", "l136"} /\ pc'[t] \in {"idle", "sleep", "none"}

IsPrefix(a, b) == Len(a) <= Len(b) /\ SubSeq(b, 1, Len(a)) = a

----------------------------------------------------------------------------
(* C1: when login_user has got a response with status 0 and returns,       *)
(* connected is True, username is the username passed, session is the     *)
(* 'session' of the response, and the call has started exactly one         *)
(* heartbeat thread if heartbeat_interval > 0 and none otherwise; no other *)
(* step starts a heartbeat thread.                                         *)
C1_LoginSuccess ==
    [][\A t \in Threads :
          /\ (pc[t] = "l136" /\ pc'[t] = "idle") =>
                /\ connected' = TRUE
                /\ username' = frame[t].args.username
                /\ session' = frame[t].result.session
                /\ Running \subseteq Running'
                /\ Cardinality(Running' \ Running) =
                      IF frame[t].args.heartbeat_interval > 0 THEN 1 ELSE 0
          /\ ~(pc[t] = "l136" /\ pc'[t] = "idle") =>
                (t = Main => Running' \subseteq Running)
      ]_vars

(* login_user("b", ..., 60) has just returned and its heartbeat thread is about to start *)
C1_Witness ==
    /\ pc[Main] = "idle"
    /\ ret = None
    /\ net = NoEvent
    /\ connected
    /\ username = "b"
    /\ session = TokenOf("b")
    /\ \E h \in HbIds : pc[h] = "check"

(* C2: a response with a status other than 0 ends the call with no result, *)
(* appends exactly one record holding the response's err_no and err_info,  *)
(* and changes none of connected, username and session; the steps of a     *)
(* call before the response append nothing and change none of them either. *)
C2_Refused ==
    [][\A t \in Threads :
          /\ Refused(t) =>
                /\ exception_stack' = Append(exception_stack,
                                             [err_no |-> net'.result.err_no,
                                              err_info |-> net'.result.err_info])
                /\ UNCHANGED session_vars
                /\ Ends(t)
                /\ t = Main => ret' = None
          /\ (pc'[t] = "built" \/ Sends(t)) /\ pc'[t] # pc[t] =>
                UNCHANGED <<session_vars, exception_stack>>
      ]_vars

(* a login_user refused after an earlier login succeeded *)
C2_Witness ==
    /\ net.kind = "resp"
    /\ net.op = "login_user"
    /\ net.result.status # 0
    /\ connected
    /\ session # ""
    /\ ret = None
    /\ Len(exception_stack) = 2

(* C3: once connected has been flipped to False, a heartbeat thread sends  *)
(* no request any more, but for the one of the cycle it was in when the    *)
(* flip happened.                                                          *)
C3_NoSendAfterFlip ==
    [][\A h \in HbIds : flip[h] = "over" => ~Sends(h)]_vars

(* C4: at most one heartbeat thread runs at any moment *)
C4_AtMostOneHeartbeat == Cardinality(Running) <= 1

(* C5: whenever connected is True, username and session are those of one   *)
(* successful login, in every state a running heartbeat thread can see.    *)
C5_SessionAtomic ==
    (Running # {} /\ connected) => (username \in Usernames /\ session = TokenOf(username))

(* C6: a heartbeat cycle that gets a response with a status other than 0   *)
(* appends one record and the loop goes on: the thread sleeps, and unless  *)
(* connected is found False it sends the next heartbeat request.           *)
C6_RefusedHeartbeatGoesOn ==
    /\ [][\A h \in HbIds :
            Refused(h) => /\ Len(exception_stack') = Len(exception_stack) + 1
                          /\ pc'[h] = "sleep"]_vars
    /\ \A h \in HbIds :
          (net.kind = "resp" /\ net.thread = h /\ net.result.status # 0)
             ~> (~connected \/ (net.kind = "req" /\ net.thread = h /\ net.op = "heartbeat"))

(* a heartbeat thread sleeping after a refused cycle *)
C6_Witness ==
    \E h \in HbIds :
        /\ net.kind = "resp"
        /\ net.thread = h
        /\ net.result.status # 0
        /\ pc[h] = "sleep"
        /\ connected
        /\ exception_stack # <<>>

(* C7: a heartbeat cycle whose transport fails is recorded in the error    *)
(* history and leaves the heartbeat thread running.                        *)
C7_TransportErrorSurvived ==
    [][\A h \in HbIds :
          (Answered(h) /\ net'.kind = "error" /\ net'.thread = h) =>
              /\ Len(exception_stack') = Len(exception_stack) + 1
              /\ pc'[h] \in Alive]_vars

(* C8: connected, username and session are changed by nothing but the      *)
(* three stores of a login_user that got status 0; no step of the client   *)
(* sets connected back to False or empties session once it is set.         *)
C8_OnlyLoginWrites ==
    [][pc' # pc =>
          /\ connected => connected'
          /\ session # "" => session' # ""
          /\ session_vars' # session_vars =>
                \E t \in Threads :
                    /\ frame[t].op = "login_user"
                    /\ \/ Answered(t) /\ net'.kind = "resp" /\ net'.result.status = 0
                       \/ pc[t] \in {"l134", "l135"} /\ pc'[t] # pc[t]
      ]_vars

(* register_user has been answered while a session is held *)
C8_Witness ==
    /\ net.kind = "resp"
    /\ net.op \in {"register_user", "heartbeat", "change_password"}
    /\ connected
    /\ username = "a"
    /\ session = TokenOf("a")

(* C9: the error history only grows at its end: before every step it is a  *)
(* prefix of what it is after the step.                                    *)
C9_AppendOnly == [][IsPrefix(exception_stack, exception_stack')]_vars

(* two different records, the second from a heartbeat thread *)
C9_Witness ==
    /\ Len(exception_stack) = 2
    /\ exception_stack[1] # exception_stack[2]
    /\ net.kind = "resp"
    /\ net.thread \in HbIds

(* The order in which section 6 has every operation sign its fields *)
SignedFields(op) ==
    CASE op = "register_user"       -> <<"username", "password", "description", "salt">>
      [] op = "login_user"          -> <<"username", "password", "salt">>
      [] op = "heartbeat"           -> <<"session", "salt">>
      [] op = "get_user_info"       -> <<"session", "username", "salt">>
      [] op = "change_password"     -> <<"session", "username", "new_password", "salt">>
      [] op = "send_direct_message" -> <<"session", "recv_user", "message", "salt">>
      [] op = "get_direct_message"  -> <<"session", "salt">>
      [] op = "send_group_message"  -> <<"session", "gid", "message", "salt">>
      [] op = "get_group_message"   -> <<"session", "gid", "salt">>
      [] op = "get_group_info"      -> <<"session", "gid", "salt">>
      [] op = "register_group"      -> <<"session", "group_name", "description", "salt">>

(* C10: the signature of every request is the one of the values the        *)
(* request carries under the operation's field names, in the order of     *)
(* section 6.                                                              *)
C10_SignedAsSent ==
    net.kind = "req" =>
        LET fields == SignedFields(net.op)
        IN  net.data.sign = GetSign([i \in 1..Len(fields) |-> net.data[fields[i]]])

(* two calls of _get_sign, one after the other *)
TwoSigns == ret.kind = "sign" /\ ret'.kind = "sign"

(* the two calls got sequences of one length that differ in one place only *)
OneFieldChanged ==
    /\ Len(ret.args) = Len(ret'.args)
    /\ Cardinality({i \in 1..Len(ret.args) : ret.args[i] # ret'.args[i]}) = 1

C12_TransportErrorPropagates ==
    [][(Answered(Main) /\ net'.kind = "error" /\ net'.thread = Main) =>
          /\ ret' = Raised
          /\ pc'[Main] = "idle"
          /\ UNCHANGED <<session_vars, exception_stack>>
          /\ Running' = Running
      ]_vars

(* a login_user has raised while a session is held and a thread could be started *)
C12_Witness ==
    /\ net.kind = "error"
    /\ net.thread = Main
    /\ net.op = "login_user"
    /\ ret = Raised
    /\ connected
    /\ session # ""
    /\ FreeSlots # {}

(* C13: get_user_info, change_password, send_direct_message,               *)
(* get_direct_message, send_group_message, get_group_message,              *)
(* get_group_info and register_group return the response itself when its  *)
(* status is 0, and append nothing to the error history.                   *)
C13_ResponseReturned ==
    [][\A t \in Threads :
          (/\ Answered(t)
           /\ frame[t].op \in {"get_user_info", "change_password", "send_direct_message",
                                "get_direct_message", "send_group_message",
                                "get_group_message", "get_group_info", "register_group"}
           /\ net'.kind = "resp"
           /\ net'.thread = t
           /\ net'.result.status = 0) =>
              /\ ret' = Dict(net'.result)
              /\ Ends(t)
              /\ exception_stack' = exception_stack
      ]_vars

(* register_group has returned the response it got, after an earlier call was refused *)
C13_Witness ==
    /\ net.kind = "resp"
    /\ net.op = "register_group"
    /\ net.result.status = 0
    /\ ret = Dict(net.result)
    /\ exception_stack # <<>>

(* the request thread t sends in this step carries token tok and is signed with it *)
CarriesAndSigns(t, tok) ==
    net'.data = Data([frame[t] EXCEPT !.s1 = tok], tok, net'.data.salt)

(* C14: every authenticated request, a heartbeat too, carries and signs   *)
(* the token self.session holds while the request is built, the empty one  *)
(* when no login has succeeded; and no call ends without its request       *)
(* having gone to the server, whatever connected is.                       *)
C14_TokenCarriedAndSigned ==
    [][\A t \in Threads :
          /\ (Sends(t) /\ frame[t].op \notin Unauthenticated) =>
                \E tok \in {frame[t].s1, session} : CarriesAndSigns(t, tok)
          /\ Ends(t) => (net'.kind \in {"resp", "error"} \/ pc[t] = "l136")
      ]_vars

(* C15: every request goes to the endpoint that bears the name of its      *)
(* operation in section 6, register_group to register_group, so that two   *)
(* different operations never post to one endpoint.                        *)
C15_OwnEndpoint ==
    net.kind = "req" =>
        /\ net.op \in Ops
        /\ net.api_name = net.op

(* Reading a string as a decimal numeral *)
IsDigit(c) == \E i \in 1..10 : Digits[i] = c

DigitValue(c) == CHOOSE d \in 0..9 : Digits[d + 1] = c

AllDigits(s) == Len(s) > 0 /\ \A i \in 1..Len(s) : IsDigit(SubSeq(s, i, i))

RECURSIVE ParseDecimal(_)
ParseDecimal(s) ==
    IF Len(s) = 0 THEN 0
    ELSE 10 * ParseDecimal(SubSeq(s, 1, Len(s) - 1)) + DigitValue(SubSeq(s, Len(s), Len(s)))

(* C16: the salt of every request, of the application thread or of a       *)
(* heartbeat cycle, is the decimal numeral of an integer from 1 to 100000, *)
(* drawn for that request: a thread that is in no call keeps no local of   *)
(* an earlier call, its salt included.                                     *)
C16_SaltPerRequest ==
    /\ net.kind = "req" =>
          /\ AllDigits(net.data.salt)
          /\ ParseDecimal(net.data.salt) \in SaltMin..SaltMax
          /\ Str(ParseDecimal(net.data.salt)) = net.data.salt
    /\ \A t \in Threads :
          pc[t] \in {"idle", "none", "check", "call", "sleep"} => frame[t] = NoFrame

(* a heartbeat thread has sent a request with the largest salt *)
C16_Witness ==
    /\ net.kind = "req"
    /\ net.thread \in HbIds
    /\ net.op = "heartbeat"
    /\ net.data.salt = "100000"

(* heartbeat thread h has just put a request on the network *)
HeartbeatSent(h) == net.kind = "req" /\ net.thread = h /\ net.op = "heartbeat"

(* the transport of heartbeat thread h has just failed *)
HeartbeatFailed(h) == net.kind = "error" /\ net.thread = h

RecordOf(result) == [err_no |-> result.err_no, err_info |-> result.err_info]

(* the response that has just arrived was refused *)
JustRefused == net.kind = "resp" /\ net.result.status # 0

(* C18: when two threads, a heartbeat thread and the application thread or *)
(* two heartbeat threads, wait for their answers at the same time and both *)
(* are refused, one right after the other, the error history ends with the *)
(* record of the first and then the record of the second, each once and    *)
(* each with the err_no and err_info of its own response, after everything *)
(* that was there before.                                                  *)
C18_BothRecorded ==
    [][\A t \in Threads :
          (JustRefused /\ net.thread # t /\ Refused(t)) =>
              /\ exception_stack # <<>>
              /\ LET before == SubSeq(exception_stack, 1, Len(exception_stack) - 1)
                 IN  /\ exception_stack = Append(before, RecordOf(net.result))
                     /\ exception_stack' =
                           before \o <<RecordOf(net.result), RecordOf(net'.result)>>
      ]_vars

(* the application thread was refused right after a heartbeat thread, with *)
(* different errors                                                        *)
C18_Witness ==
    /\ JustRefused
    /\ net.thread = Main
    /\ Len(exception_stack) = 2
    /\ exception_stack[2] = RecordOf(net.result)
    /\ exception_stack[1] # exception_stack[2]
    /\ \E h \in HbIds : pc[h] = "sleep"

(* C19: a client just constructed has no heartbeat thread, and the only    *)
(* step that starts one is the end of a login_user that got status 0 and   *)
(* was given a heartbeat_interval above 0: register_user, the calls that   *)
(* carry the session, a refused login and a login with an interval of 0 or *)
(* less start none; and only a thread so started sends requests in the     *)
(* background.                                                             *)
C19_OnlyLoginStartsHeartbeat ==
    /\ Running = {}
    /\ net.kind = "none"
    /\ [][/\ \A h \in HbIds :
               (h \notin Running /\ h \in Running') =>
                   \E t \in Threads :
                       /\ frame[t].op = "login_user"
                       /\ pc[t] = "l136" /\ pc'[t] = "idle"
                       /\ frame[t].result.status = 0
                       /\ frame[t].args.heartbeat_interval > 0
          /\ \A h \in HbIds : Sends(h) => (h \in Running /\ frame[h].op = "heartbeat")
        ]_vars

(* login_user(..., -1) has succeeded after a refused call, and no heartbeat thread runs *)
C19_Witness ==
    /\ pc[Main] = "idle"
    /\ ret = None
    /\ net = NoEvent
    /\ connected
    /\ session = TokenOf("a")
    /\ exception_stack # <<>>
    /\ Running = {}

(* The tokens the server issues *)
IssuedTokens == {TokenOf(u) : u \in Usernames}

(* C20: every heartbeat request of a heartbeat thread carries, and is      *)
(* signed over, a token that a login response brought, never the empty     *)
(* string session holds at construction: the thread is started after the   *)
(* token is stored.                                                        *)
C20_HeartbeatHasToken ==
    (net.kind = "req" /\ net.thread \in HbIds) =>
        /\ net.data.session # ""
        /\ net.data.session \in IssuedTokens
        /\ \E tok \in IssuedTokens : net.data.sign = GetSign(<<tok, net.data.salt>>)

(* the heartbeat thread of the first login has sent a request *)
C20_Witness ==
    /\ net.kind = "req"
    /\ net.thread \in HbIds
    /\ net.data.session = TokenOf("a")
    /\ username = "a"
    /\ exception_stack = <<>>
    /\ Cardinality(Running) = 1
    /\ pc[Main] = "idle"

====
